---- MODULE Spec2Model ----
(***************************************************************************)
(* v2link-client: the engine process supervisor (XrayProcessManager), the   *)
(* MainWindow handlers that drive it, and the system proxy manager.         *)
(*                                                                          *)
(* Spec   : one XrayProcessManager driven by arbitrary start / stop /       *)
(*          is_running / returncode calls, with the operating system        *)
(*          deciding launch results, signal handling and process exits.     *)
(* SpecUI : the MainWindow handlers (Validate & Save, Start/Stop, the       *)
(*          liveness poll timer) driving the supervisor they own.           *)
(* SpecBuild : build_xray_config called directly between Validate & Save  *)
(*          runs of the window.                                             *)
(* SpecCore : parse_link, build_xray_config, _pick_proxy_ports and          *)
(*          validate_xray_config, each called once on arguments drawn by    *)
(*          the initial state.                                              *)
(* SpecSession : one session of the window: a single Validate & Save run,  *)
(*          then Start/Stop clicks, timer polls and engine exits.           *)
(* SpecSessionLive : SpecSession under a status timer that keeps firing.    *)
(* SpecProxy : one SystemProxyManager driven by apply / restore calls, with *)
(*          the environment deciding which gsettings command fails.        *)
(***************************************************************************)
EXTENDS Integers, Sequences, FiniteSets, TLC

VARIABLES sup, procs, handles, ui, files, hist, last, proxy

vars == <<sup, procs, handles, ui, files, hist, last, proxy>>

\* ------------------------------------------------------------------ bounds
\* Number of engine processes the operating system lets the model launch.
MaxProcs == 3
\* Number of times the log file may be opened.
MaxHandles == 3
\* Number of engine launches attempted from the main window.
MaxClicks == 1
\* Number of engine launches attempted in one session of the window.
MaxLaunches == 2

\* Number of key=value pairs in the query of a link.
MaxQuery == 2
\* Number of ports find_free_port() hands out in one port selection.
MaxAlloc == 3
\* Number of direct calls of build_xray_config() that are remembered.
MaxBuilds == 2

Range(f) == {f[i] : i \in DOMAIN f}

\* ------------------------------------------------------------- null values
\* Python None for a string-valued field.
None == "None"
\* Python None for an integer-valued result (Popen.returncode, poll()).
NoCode == <<>>
\* Python None for an object reference (a Popen object, a file object).
NoRef == 0

\* Exit codes of an engine that exits by itself.
ExitCodes == {0, 1}

\* -------------------------------------------------------- operating system
\* A log file object is open until the program calls close() on it; what a
\* finalizer of the runtime does with an unreferenced file object is not the
\* program's doing.
\*
\* A launched process: whether the OS process is alive, its exit status once
\* it is not, the returncode cached in the Popen object and the strongest
\* signal delivered to it.
NewProcess ==
    [alive |-> TRUE, exitcode |-> 0, returncode |-> NoCode, sig |-> "none"]

\* Popen.poll(): non-blocking; caches the exit status of a process that has exited.
Poll(P, p) ==
    IF P[p].returncode = NoCode /\ ~P[p].alive
    THEN [P EXCEPT ![p].returncode = <<P[p].exitcode>>]
    ELSE P

\* Popen.send_signal: polls first and skips a process known to have died.
SendSignal(P, p, s) ==
    LET Q == Poll(P, p)
    IN IF Q[p].returncode # NoCode THEN Q ELSE [Q EXCEPT ![p].sig = s]

\* The OS process ends (exit status c) and wait() reaps it.
Reap(P, p, c) ==
    [P EXCEPT ![p].alive = FALSE, ![p].exitcode = c, ![p].returncode = <<c>>]

\* ------------------------------------------------------------- supervisor
\* XrayProcessManager.__init__
NewManager(x) ==
    [xray |-> x, proc |-> NoRef, stdout_handle |-> NoRef, stdout_path |-> None]

\* is_running(): the truth value, and the Popen table after the poll.
IsRunningMutant(s, P) ==
    [value |-> s.proc # NoRef, procs |-> P]

is_running(s, P) ==
    IF s.proc = NoRef
    THEN [value |-> FALSE, procs |-> P]
    ELSE LET Q == Poll(P, s.proc)
         IN [value |-> Q[s.proc].returncode = NoCode, procs |-> Q]

\* returncode(): None without a process, else poll().
returncode(s, P) ==
    IF s.proc = NoRef
    THEN [value |-> NoCode, procs |-> P]
    ELSE LET Q == Poll(P, s.proc)
         IN [value |-> Q[s.proc].returncode, procs |-> Q]

\* start(): the guard of its first statement.
StartGuardMutant(s, P) == FALSE

StartGuard(s, P) == is_running(s, P).value

\* start(): the exception raised for a failure of subprocess.Popen.
LaunchErrorMutant(launch) ==
    IF launch = "OSError" THEN "OSError" ELSE "BinaryMissingError"

LaunchError(launch) ==
    CASE launch = "FileNotFoundError" -> "BinaryMissingError"
      [] launch = "PermissionError" -> "PermissionDeniedError"
      [] OTHER -> "OSError"

\* _ensure_binary(): the cached binary, or the result of find_xray_binary().
ensure_binary(s, find) ==
    IF s.xray # None THEN [xray |-> s.xray, calls |-> <<>>]
    ELSE IF find = "found" THEN [xray |-> "xray", calls |-> <<"which:found">>]
    ELSE [xray |-> None, calls |-> <<"which:missing">>]

\* start(config_path).  find: the result of shutil.which when no binary is
\* cached; launch: the result of subprocess.Popen.  Returns the manager, the
\* process table, the file handles, the outcome and the calls made with their
\* results.
start(s, P, H, find, launch) ==
    LET Q == is_running(s, P).procs
        polled == IF s.proc = NoRef THEN <<>> ELSE <<"poll">>
        bin == ensure_binary(s, find)
    IN IF StartGuard(s, P)
       THEN [sup |-> s, procs |-> Q, handles |-> H, result |-> "noop", calls |-> polled]
       ELSE IF bin.xray = None
       THEN [sup |-> s, procs |-> Q, handles |-> H, result |-> "BinaryMissingError",
             calls |-> polled \o bin.calls]
       ELSE LET s1 == [s EXCEPT !.xray = bin.xray, !.stdout_path = "xray_stdout.log",
                                !.stdout_handle = Len(H) + 1]
                H1 == Append(H, TRUE)
            IN [sup |-> IF launch = "ok" THEN [s1 EXCEPT !.proc = Len(Q) + 1] ELSE s1,
                procs |-> IF launch = "ok" THEN Append(Q, NewProcess) ELSE Q,
                handles |-> H1,
                result |-> IF launch = "ok" THEN "ok" ELSE LaunchError(launch),
                calls |-> polled \o bin.calls \o <<"open", "Popen:" \o launch>>]

\* stop(): the guard of its first statement.
StopGuardMutant(s) == FALSE

StopGuard(s) == s.proc = NoRef

\* stop(): the finally block, run on the normal and on the raising path.
StopFinallyMutant(s, H, raised) ==
    IF raised
    THEN [sup |-> s, handles |-> H]
    ELSE [sup |-> [s EXCEPT !.stdout_handle = NoRef],
          handles |-> IF s.stdout_handle # NoRef
                      THEN [H EXCEPT ![s.stdout_handle] = FALSE] ELSE H]

StopFinally(s, H, raised) ==
    [sup |-> [s EXCEPT !.stdout_handle = NoRef],
     handles |-> IF s.stdout_handle # NoRef
                 THEN [H EXCEPT ![s.stdout_handle] = FALSE] ELSE H]

\* stop(): the except branch, reached when the first wait timed out.
\* kill: whether the process is gone within timeout_s of kill().
StopEscalateMutant(P, p, kill) ==
    [procs |-> IF kill THEN Reap(SendSignal(P, p, "TERM"), p, -15)
               ELSE SendSignal(P, p, "TERM"),
     raised |-> ~kill,
     calls |-> <<"terminate", IF kill THEN "wait:ok" ELSE "wait:TimeoutExpired">>]

StopEscalate(P, p, kill) ==
    [procs |-> IF kill THEN Reap(SendSignal(P, p, "KILL"), p, -9)
               ELSE SendSignal(P, p, "KILL"),
     raised |-> ~kill,
     calls |-> <<"kill", IF kill THEN "wait:ok" ELSE "wait:TimeoutExpired">>]

\* stop(timeout_s).  term: whether the process is gone within timeout_s of
\* terminate().  A manager without a Popen object returns at once (calling
\* terminate() on None would raise AttributeError).
stop(s, P, H, term, kill) ==
    IF StopGuard(s)
    THEN [sup |-> s, procs |-> P, handles |-> H, result |-> "noop", calls |-> <<>>]
    ELSE IF s.proc = NoRef
    THEN LET fin == StopFinally(s, H, TRUE)
         IN [sup |-> fin.sup, procs |-> P, handles |-> fin.handles,
             result |-> "AttributeError", calls |-> <<>>]
    ELSE LET p == s.proc
             s1 == [s EXCEPT !.proc = NoRef]
             P1 == SendSignal(P, p, "TERM")
             gone == P1[p].returncode # NoCode
             timedOut == ~gone /\ ~term
             esc == StopEscalate(P1, p, kill)
             P2 == IF gone THEN P1
                   ELSE IF term THEN Reap(P1, p, -15)
                   ELSE esc.procs
             raised == timedOut /\ esc.raised
             fin == StopFinally(s1, H, raised)
         IN [sup |-> fin.sup, procs |-> P2, handles |-> fin.handles,
             result |-> IF raised THEN "TimeoutExpired" ELSE "ok",
             calls |-> IF timedOut
                       THEN <<"terminate", "wait:TimeoutExpired">> \o esc.calls
                       ELSE <<"terminate", "wait:ok">>]

\* ------------------------------------------------------------ link parser
\* No port in the URI.
NoPort == -1
\* The largest port number urlparse accepts.
MaxPort == 65535

\* A raw link as urlparse splits it: the URI scheme, userinfo and host name
\* ("" when absent), the port as written (NoPort when absent), the query as
\* the sequence of its <<key, value>> pairs in the order written, and the
\* netloc ("[" for an unbalanced bracket, which urlparse refuses).
RawLink(scheme, username, hostname, port, query) ==
    [scheme |-> scheme, username |-> username, hostname |-> hostname, port |-> port,
     query |-> query, netloc |-> "ok"]

\* The empty (or blank) string.
EmptyLink == RawLink("", "", "", NoPort, <<>>)

\* A string such as "http://[".
MalformedNetloc(scheme) == [RawLink(scheme, "", "", NoPort, <<>>) EXCEPT !.netloc = "["]

\* The links a user pastes into the link input.
RawLinks ==
    { EmptyLink,
      RawLink("http", "", "example.com", NoPort, <<>>),
      RawLink("vmess", "abc", "host", 443, <<>>),
      RawLink("VLESS", "uuid-1", "host", 443, << <<"security", "TLS">> >>),
      RawLink("vless", "not-a-uuid", "host", 443, <<>>),
      RawLink("vless", "uuid-1", "host", 443, << <<"type", "grpc">> >>),
      RawLink("vless", "uuid-1", "host", 443,
              << <<"type", "tcp">>, <<"headerType", "bogus">> >>) }

\* str.lower() on the strings of the model.
Lower(s) ==
    CASE s = "VLESS" -> "vless"
      [] s = "SS" -> "ss"
      [] s = "TLS" -> "tls"
      [] s = "WS" -> "ws"
      [] s = "HTTP" -> "http"
      [] s = "Type" -> "type"
      [] s = "headerType" -> "headertype"
      [] s = "serviceName" -> "servicename"
      [] OTHER -> s

\* str.strip() on the strings of the model.
Strip(s) ==
    CASE s = " " -> ""
      [] s = " HTTP " -> "HTTP"
      [] OTHER -> s

\* Strings uuid.UUID() accepts.
ValidUUIDsMutant == {"uuid-1", "not-a-uuid"}

ValidUUIDs == {"uuid-1"}

SUPPORTED_SCHEMES == {"vmess", "vless", "trojan", "ss"}

\* a or b, where a is None or a non-empty string.
OrElse(a, b) == IF a = None THEN b ELSE a

NoLink == [scheme |-> None]

\* parse_qs(query, keep_blank_values=True): for a key as written, the values
\* of its occurrences in the order written.
ValuesOf(query, k) ==
    LET Pick(pair) == pair[1] = k
        pairs == SelectSeq(query, Pick)
    IN [i \in DOMAIN pairs |-> pairs[i][2]]

\* The positions at which a key is written for the first time: the order of
\* the keys of the dict parse_qs returns.
FirstOccurrences(query) ==
    {i \in DOMAIN query : \A j \in 1..(i - 1) : query[j][1] # query[i][1]}

\* {k.lower(): v for k, v in query_raw.items()}: of the keys that lower-case
\* to the same key, the one inserted last stays.
LoweredQuery(query) ==
    LET first == FirstOccurrences(query)
        Kept(key) == CHOOSE i \in first :
                        /\ Lower(query[i][1]) = key
                        /\ \A j \in first : Lower(query[j][1]) = key => j <= i
    IN [key \in {Lower(query[i][1]) : i \in DOMAIN query} |->
            ValuesOf(query, query[Kept(key)][1])]

\* _first()
First(query, key) ==
    IF key \notin DOMAIN query THEN None
    ELSE LET value == Strip(query[key][1])
         IN IF value = "" THEN None ELSE value

\* _parse_bool(): "True", "False" or None.
parse_bool(value) ==
    LET normalized == Lower(Strip(value))
    IN IF value = None THEN None
       ELSE IF normalized \in {"1", "true", "yes", "y", "on"} THEN "True"
       ELSE IF normalized \in {"0", "false", "no", "n", "off"} THEN "False"
       ELSE None

\* _parse_vless(): the checks in the order of the code, then the record.
parse_vless(raw) ==
    LET query == LoweredQuery(raw.query)
        security == Lower(OrElse(First(query, "security"), "none"))
        transport == Lower(OrElse(First(query, "type"),
                                  OrElse(First(query, "transport"), "tcp")))
        Raise(msg) == [err |-> msg, link |-> NoLink]
    IN IF raw.port > MaxPort THEN Raise("ValueError")
       ELSE IF raw.username = "" \/ raw.hostname = "" \/ raw.port = NoPort
       THEN Raise("Malformed vless link")
       ELSE IF raw.username \notin ValidUUIDs THEN Raise("Invalid VLESS user id")
       ELSE IF transport \notin {"tcp", "ws", "grpc"} THEN Raise("Unsupported transport")
       ELSE IF security \notin {"none", "tls"} THEN Raise("Unsupported security")
       ELSE [err |-> "",
             link |-> [scheme |-> "vless", user_id |-> raw.username,
                       host |-> Lower(raw.hostname), port |-> raw.port,
                       encryption |-> OrElse(First(query, "encryption"), "none"),
                       security |-> security, transport |-> transport,
                       sni |-> OrElse(First(query, "sni"),
                                      First(query, "servername")),
                       fingerprint |-> OrElse(First(query, "fp"),
                                              First(query, "fingerprint")),
                       allow_insecure |->
                           parse_bool(First(query, "allowinsecure")) = "True",
                       header_type |-> First(query, "headertype"),
                       path |-> First(query, "path"),
                       ws_host |-> First(query, "host"),
                       grpc_service_name |-> First(query, "servicename"),
                       flow |-> First(query, "flow")]]

\* parse_link()
parse_link(raw) ==
    LET scheme == Lower(raw.scheme)
        Raise(msg) == [err |-> msg, link |-> NoLink]
    IN IF raw = EmptyLink THEN Raise("Empty link")
       ELSE IF raw.netloc # "ok" THEN Raise("ValueError")
       ELSE IF scheme \notin SUPPORTED_SCHEMES THEN Raise("Unsupported scheme")
       ELSE IF scheme # "vless" THEN Raise("Scheme not implemented")
       ELSE parse_vless(raw)

\* The exception class behind each message.
ErrorClass(err) ==
    CASE err \in {"Unsupported scheme", "Scheme not implemented"} -> "UnsupportedSchemeError"
      [] err = "ValueError" -> "ValueError"
      [] err = "" -> None
      [] OTHER -> "InvalidLinkError"

\* --------------------------------------------------------- config builder
DEFAULT_LISTEN == "127.0.0.1"
DEFAULT_SOCKS_PORT == 1080
DEFAULT_HTTP_PORT == 8080

\* No document (a file that was never written, a build that raised).
NoConfig == [inbounds |-> <<>>]

\* A dict entry that is present only when its value is set.
IfSet(value, entry) == IF value = None THEN <<>> ELSE entry

\* _build_xray_stream_settings(): the TLS keys, added when security is tls.
WithTls(link, stream) ==
    IF link.security = "tls"
    THEN stream @@ [security |-> "tls",
                    tlsSettings |->
                        [allowInsecure |-> link.allow_insecure,
                         serverName |-> OrElse(link.sni, link.host)]
                        @@ IfSet(link.fingerprint, [fingerprint |-> link.fingerprint])]
    ELSE stream

\* _build_xray_stream_settings(): not link.grpc_service_name
GrpcServiceMissingMutant(link) == link.grpc_service_name = ""

GrpcServiceMissing(link) == link.grpc_service_name \in {None, ""}

\* _build_xray_stream_settings()
build_xray_stream_settings(link) ==
    LET header_type == Lower(Strip(OrElse(link.header_type, "none")))
        net == [network |-> link.transport]
        Raise(msg) == [err |-> msg, stream |-> net]
    IN CASE link.transport = "ws" ->
              [err |-> "",
               stream |-> WithTls(link, net @@
                   [wsSettings |-> [path |-> OrElse(link.path, "/")]
                        @@ IfSet(link.ws_host, [headers |-> [Host |-> link.ws_host]])])]
         [] link.transport = "grpc" ->
              IF GrpcServiceMissing(link)
              THEN Raise("Missing gRPC serviceName")
              ELSE [err |-> "",
                    stream |-> WithTls(link, net @@
                        [grpcSettings |-> [serviceName |-> link.grpc_service_name]])]
         [] link.transport = "tcp" ->
              IF header_type \in {"none", ""}
              THEN [err |-> "", stream |-> WithTls(link, net)]
              ELSE IF header_type # "http"
              THEN Raise("Unsupported TCP header type")
              ELSE [err |-> "",
                    stream |-> WithTls(link, net @@
                        [tcpSettings |->
                            [header |-> [type |-> "http",
                                         request |->
                                            IfSet(link.path, [path |-> <<link.path>>])
                                            @@ IfSet(link.ws_host,
                                                     [headers |-> [Host |-> <<link.ws_host>>]])]]])]
         [] OTHER -> Raise("Unsupported transport")

\* build_xray_config(): the inbounds, taken from the window instead of the
\* arguments.
InboundsMutant(socks_port, http_port) ==
    << [tag |-> "socks-in", listen |-> DEFAULT_LISTEN, port |-> ui.socks_port],
       [tag |-> "http-in", listen |-> DEFAULT_LISTEN, port |-> ui.http_port] >>

\* build_xray_config(): the two inbounds of the document.
Inbounds(socks_port, http_port) ==
    << [tag |-> "socks-in", listen |-> DEFAULT_LISTEN, port |-> socks_port],
       [tag |-> "http-in", listen |-> DEFAULT_LISTEN, port |-> http_port] >>

\* build_xray_config() as the main window calls it (listen and logs_dir take
\* their defaults): the document, or the ConfigBuildError raised.
build_xray_config(link, socks_port, http_port) ==
    LET st == build_xray_stream_settings(link)
    IN IF st.err # ""
       THEN [err |-> st.err, config |-> NoConfig]
       ELSE [err |-> "",
             config |->
                [inbounds |-> Inbounds(socks_port, http_port),
                 outbound |-> [address |-> link.host, port |-> link.port,
                               user |-> [id |-> link.user_id,
                                         encryption |-> link.encryption]
                                        @@ IfSet(link.flow, [flow |-> link.flow]),
                               streamSettings |-> st.stream]]]

\* ----------------------------------------------------------- main window
\* The state directory without a configuration, the profile without a link.
EmptyFiles == [config |-> NoConfig, profile |-> EmptyLink]

\* Ports find_free_port() hands back, in call order.
FreshPorts == <<32768, 32769, 32770>>
\* Results of the bind in ensure_port_available(): bound, EADDRINUSE (EACCES
\* raises PermissionDeniedError, an AppError handled by the same clauses), or
\* another OSError, which is re-raised as it is.
ProbeResults == {"ok", "PortInUseError", "OSError"}

\* _pick_proxy_ports() without the while loop.
RePickMutant(socks, http, alloc, n) == [http |-> http, n |-> n, again |-> FALSE]

\* _pick_proxy_ports(): the while loop.  alloc: the ports find_free_port()
\* returns from here on, in call order; n: the calls made by the loop so far.
\* When alloc ends and the ports are still equal the loop would go round
\* again: again is TRUE.
RECURSIVE RePick(_, _, _, _)
RePick(socks, http, alloc, n) ==
    IF http # socks THEN [http |-> http, n |-> n, again |-> FALSE]
    ELSE IF alloc = <<>> THEN [http |-> http, n |-> n, again |-> TRUE]
    ELSE RePick(socks, Head(alloc), Tail(alloc), n + 1)

\* _pick_proxy_ports().  probe1, probe2: the results of the two availability
\* probes; alloc: the ports find_free_port() returns, in call order.  calls
\* lists the calls made, then "again" if the loop has not ended when alloc
\* does.
pick_proxy_ports(probe1, probe2, alloc) ==
    LET c1 == <<"ensure_port_available:" \o probe1>>
        f1 == IF probe1 = "ok" THEN <<>> ELSE <<"find_free_port">>
        socks == IF probe1 = "ok" THEN DEFAULT_SOCKS_PORT ELSE Head(alloc)
        rest1 == IF probe1 = "ok" THEN alloc ELSE Tail(alloc)
        c2 == <<"ensure_port_available:" \o probe2>>
        f2 == IF probe2 = "ok" THEN <<>> ELSE <<"find_free_port">>
        http == IF probe2 = "ok" THEN DEFAULT_HTTP_PORT ELSE Head(rest1)
        rest2 == IF probe2 = "ok" THEN rest1 ELSE Tail(rest1)
        loop == RePick(socks, http, rest2, 0)
    IN IF probe1 = "OSError"
       THEN [err |-> "OSError", socks |-> 0, http |-> 0, calls |-> c1]
       ELSE IF probe2 = "OSError"
       THEN [err |-> "OSError", socks |-> 0, http |-> 0, calls |-> c1 \o f1 \o c2]
       ELSE [err |-> "", socks |-> socks, http |-> loop.http,
             calls |-> c1 \o f1 \o c2 \o f2
                       \o [i \in 1..loop.n |-> "find_free_port"]
                       \o (IF loop.again THEN <<"again">> ELSE <<>>)]

\* _on_validate_clicked(): its first four statements.
ValidateEntryMutant(u) ==
    [u EXCEPT !.status = "STOPPED"]

ValidateEntry(u) ==
    [u EXCEPT !.status = "STOPPED", !.validated_config_path = None,
              !.start_enabled = FALSE]

\* The result of subprocess.run() on the self-test command: the exception it
\* raised, or "exit" with the exit status and the captured output.
Run(outcome, code, stderr, stdout) ==
    [outcome |-> outcome, returncode |-> code, stderr |-> stderr, stdout |-> stdout]

\* The name of a self-test result in the list of calls.
RunName(run) ==
    IF run.outcome = "exit" THEN "exit:" \o ToString(run.returncode) ELSE run.outcome

\* validate_xray_config(): stderr or stdout or f"exit code {returncode}"
FailureDetailMutant(run) ==
    LET stderr == Strip(run.stderr)
        stdout == Strip(run.stdout)
    IN IF stdout # "" THEN stdout
       ELSE IF stderr # "" THEN stderr
       ELSE "exit code " \o ToString(run.returncode)

FailureDetail(run) ==
    LET stderr == Strip(run.stderr)
        stdout == Strip(run.stdout)
    IN IF stderr # "" THEN stderr
       ELSE IF stdout # "" THEN stdout
       ELSE "exit code " \o ToString(run.returncode)

\* validate_xray_config(): the error raised for a result of the self-test run
\* ("" when it returns), with the detail of the ConfigBuildError.
validate_xray_config(run) ==
    LET detail == FailureDetail(run)
    IN CASE run.outcome = "FileNotFoundError" -> [err |-> "BinaryMissingError", detail |-> None]
         [] run.outcome = "PermissionError" -> [err |-> "PermissionDeniedError", detail |-> None]
         [] run.outcome = "TimeoutExpired" -> [err |-> "TimeoutExpired", detail |-> None]
         [] run.outcome = "exit" /\ run.returncode = 0 -> [err |-> "", detail |-> None]
         [] OTHER -> [err |-> "ConfigBuildError", detail |-> detail]

\* The self-test results of the runs of the main window.
TestResults ==
    { Run("exit", 0, "", ""), Run("exit", 1, "bad config", ""),
      Run("FileNotFoundError", 0, "", ""), Run("PermissionError", 0, "", ""),
      Run("TimeoutExpired", 0, "", "") }

\* parse_link(raw_link) for each text of the link input.
ParsedInput == [raw \in RawLinks |-> parse_link(raw)]

\* The body of _on_validate_clicked().  raw: the text of the link input; ports: the
\* result of _pick_proxy_ports(); which: the result of find_xray_binary();
\* test: the result of the self-test run.  Returns the window, the manager,
\* the files, the outcome of the run and the functions called, each once, in
\* the order of their first call.
validate_and_save(u, s, F, raw, ports, which, test) ==
    LET u0 == ValidateEntry(u)
        pl == ParsedInput[raw]
        bc == build_xray_config(pl.link, ports.socks, ports.http)
        F1 == [F EXCEPT !.config = bc.config]
        F2 == [F1 EXCEPT !.profile = raw]
        verr == validate_xray_config(test).err
        c1 == <<"parse_link">>
        c2 == c1 \o <<"ensure_port_available">>
                \o (IF "find_free_port" \in Range(ports.calls)
                    THEN <<"find_free_port">> ELSE <<>>)
        c3 == c2 \o <<"build_xray_config">>
        c4 == c3 \o <<"save_json:config", "save_json:profile", "which:" \o which>>
        c5 == c4 \o <<"validate_xray_config:" \o RunName(test)>>
        Fail(kind, F0, c) ==
            [ui |-> u0, sup |-> s, files |-> F0, result |-> kind, calls |-> c,
             replaced |-> FALSE]
    IN IF pl.err # "" THEN Fail("parse_error", F, c1)
       ELSE IF ports.err # "" THEN Fail("port_error", F, c2)
       ELSE IF bc.err # "" THEN Fail("build_error", F, c3)
       ELSE IF which = "missing" THEN Fail("binary_missing", F2, c4)
       ELSE IF verr = "TimeoutExpired" THEN Fail("validator_timeout", F2, c5)
       ELSE IF verr = "ConfigBuildError" THEN Fail("validator_rejected", F2, c5)
       ELSE IF verr # "" THEN Fail("binary_missing", F2, c5)
       ELSE [ui |-> [u0 EXCEPT !.validated_config_path = "xray_config.json",
                               !.socks_port = ports.socks, !.http_port = ports.http,
                               !.start_enabled = TRUE],
             sup |-> NewManager("xray"), files |-> F2, result |-> "ok", calls |-> c5,
             replaced |-> TRUE]

\* _on_validate_clicked(): the handler connected to the Validate & Save button.
OnValidateClickedMutant(u, s, F, raw, ports, which, test) ==
    LET r == validate_and_save(u, s, F, raw, ports, which, test)
    IN IF r.result = "build_error"
       THEN [r EXCEPT !.files = [F EXCEPT !.profile = raw],
                      !.calls = @ \o <<"save_json:profile">>]
       ELSE r

on_validate_clicked(u, s, F, raw, ports, which, test) ==
    validate_and_save(u, s, F, raw, ports, which, test)

\* _stop_core(): the widgets after the stop.
StoppedWidgets(u) ==
    [u EXCEPT !.timer_active = FALSE, !.status = "STOPPED", !.start_text = "Start",
              !.link_enabled = TRUE, !.validate_enabled = TRUE]

\* _on_start_stop_clicked(): the widgets after a successful start.
RunningWidgets(u) ==
    [u EXCEPT !.status = "RUNNING", !.start_text = "Stop", !.link_enabled = FALSE,
              !.validate_enabled = FALSE, !.timer_active = TRUE]

\* _on_start_stop_clicked(): the check of the validated configuration path.
HasValidatedConfig(u) == u.validated_config_path # None

\* _on_start_stop_clicked().  term, kill: as for stop(); probe1, probe2: the
\* results of the two availability probes; launch: as for start().
on_start_stop_clicked(u, s, P, H, term, kill, probe1, probe2, launch) ==
    LET run == is_running(s, P)
        polled == IF s.proc = NoRef THEN <<>> ELSE <<"poll">>
        st == stop(s, run.procs, H, term, kill)
        sr == start(s, run.procs, H, "found", launch)
        c1 == polled \o <<"ensure_port_available:" \o probe1>>
        c2 == c1 \o <<"ensure_port_available:" \o probe2>>
        Keep(kind, c) ==
            [ui |-> u, sup |-> s, procs |-> run.procs, handles |-> H, result |-> kind,
             calls |-> c]
    IN IF run.value
       THEN [ui |-> StoppedWidgets(u), sup |-> st.sup, procs |-> st.procs,
             handles |-> st.handles, result |-> "stopped",
             calls |-> polled \o <<"stop">> \o st.calls]
       ELSE IF ~HasValidatedConfig(u) THEN Keep("no_config", polled)
       ELSE IF probe1 # "ok" THEN Keep("port_error", c1)
       ELSE IF probe2 # "ok" THEN Keep("port_error", c2)
       ELSE IF sr.result \notin {"ok", "noop"}
       THEN [ui |-> u, sup |-> sr.sup, procs |-> sr.procs, handles |-> sr.handles,
             result |-> "start_error", calls |-> c2 \o <<"start">> \o sr.calls]
       ELSE [ui |-> RunningWidgets(u), sup |-> sr.sup, procs |-> sr.procs,
             handles |-> sr.handles, result |-> "started",
             calls |-> c2 \o <<"start">> \o sr.calls]

PollCoreStatusMutant(u, s, P) == [ui |-> u, procs |-> P, result |-> "running"]

\* _poll_core_status()
poll_core_status(u, s, P) ==
    LET run == is_running(s, P)
    IN IF run.value
       THEN [ui |-> u, procs |-> run.procs, result |-> "running"]
       ELSE [ui |-> StoppedWidgets(u), procs |-> returncode(s, run.procs).procs,
             result |-> "stopped"]

\* ---------------------------------------------------- system proxy manager
\* _GSETTINGS_KEYS, each written "schema:key" as the snapshot names it.
GSETTINGS_KEYS ==
    <<"org.gnome.system.proxy:mode",
      "org.gnome.system.proxy:ignore-hosts",
      "org.gnome.system.proxy:use-same-proxy",
      "org.gnome.system.proxy.http:enabled",
      "org.gnome.system.proxy.http:host",
      "org.gnome.system.proxy.http:port",
      "org.gnome.system.proxy.https:host",
      "org.gnome.system.proxy.https:port",
      "org.gnome.system.proxy.socks:host",
      "org.gnome.system.proxy.socks:port">>

MODE_KEY == "org.gnome.system.proxy:mode"
IGNORE_HOSTS_KEY == "org.gnome.system.proxy:ignore-hosts"

\* The desktop's proxy settings before the application touches them, as
\* `gsettings get` prints them.  The text of a string list is kept as the
\* sequence of its items.
DesktopSettings ==
    ("org.gnome.system.proxy:mode" :> "'none'")
    @@ ("org.gnome.system.proxy:ignore-hosts" :> <<"localhost", " ">>)
    @@ ("org.gnome.system.proxy:use-same-proxy" :> "false")
    @@ ("org.gnome.system.proxy.http:enabled" :> "false")
    @@ ("org.gnome.system.proxy.http:host" :> "''")
    @@ ("org.gnome.system.proxy.http:port" :> "0")
    @@ ("org.gnome.system.proxy.https:host" :> "''")
    @@ ("org.gnome.system.proxy.https:port" :> "0")
    @@ ("org.gnome.system.proxy.socks:host" :> "''")
    @@ ("org.gnome.system.proxy.socks:port" :> "0")

\* The SystemProxyConfig the application applies: its two local inbounds.
ProxyConfig ==
    [http_host |-> DEFAULT_LISTEN, http_port |-> DEFAULT_HTTP_PORT,
     socks_host |-> DEFAULT_LISTEN, socks_port |-> DEFAULT_SOCKS_PORT,
     bypass_hosts |-> <<"localhost", "127.0.0.0/8">>]

\* _format_gsettings_str; no host of the model holds a quote to escape.
format_gsettings_str(value) == "'" \o value \o "'"

\* _parse_gsettings_str_list on the items of the list's text.
parse_gsettings_str_list(raw) ==
    LET kept == SelectSeq(raw, LAMBDA item : Strip(item) # "")
    IN [i \in 1..Len(kept) |-> Strip(kept[i])]

\* The merge loop of _gsettings_apply: stripped, blanks and repeats dropped.
RECURSIVE Merged(_, _)
Merged(items, out) ==
    IF items = <<>>
    THEN out
    ELSE LET item == Strip(Head(items))
         IN Merged(Tail(items),
                   IF item = "" \/ item \in Range(out) THEN out ELSE Append(out, item))

\* One gsettings command line.
Cmd(cmd, key, value) == [cmd |-> cmd, key |-> key, value |-> value]

\* Where the environment makes a pass of n commands fail: nowhere (0), at
\* its first or second command, or at its last one.
FailPoints(n) == {0, 1, 2, n}

\* The settings after the first n commands of a pass ran.
RECURSIVE Written(_, _, _)
Written(S, cmds, n) ==
    IF n = 0
    THEN S
    ELSE IF cmds[n].cmd = "set"
    THEN (cmds[n].key :> cmds[n].value) @@ Written(S, cmds, n - 1)
    ELSE Written(S, cmds, n - 1)

\* _run over the commands of one pass: they run in order and the first one
\* that raises ProxyApplyError ends the pass.
RunPass(S, pass, cmds, fail) ==
    LET n == Len(cmds)
        failed_at == IF fail \in 1..n THEN fail ELSE n + 1
    IN [settings |-> Written(S, cmds, failed_at - 1),
        calls |-> [i \in 1..(IF failed_at <= n THEN failed_at ELSE n) |->
                     [pass |-> pass, cmd |-> cmds[i].cmd, key |-> cmds[i].key,
                      ok |-> i # failed_at]],
        raised |-> failed_at <= n]

\* _gsettings_snapshot: one get per key.
SnapshotCommands == [i \in 1..Len(GSETTINGS_KEYS) |-> Cmd("get", GSETTINGS_KEYS[i], "")]

RestoreCommandsMutant(snapshot) == <<Cmd("set", MODE_KEY, snapshot[MODE_KEY])>>

\* _gsettings_restore: the keys of the snapshot other than mode, then mode.
RestoreCommands(snapshot) ==
    LET others == SelectSeq(GSETTINGS_KEYS,
                            LAMBDA k : k # MODE_KEY /\ k \in DOMAIN snapshot)
        sets == [i \in 1..Len(others) |-> Cmd("set", others[i], snapshot[others[i]])]
    IN IF MODE_KEY \in DOMAIN snapshot
       THEN Append(sets, Cmd("set", MODE_KEY, snapshot[MODE_KEY]))
       ELSE sets

ApplyCommandsMutant(S, cfg) ==
    <<Cmd("get", IGNORE_HOSTS_KEY, ""),
      Cmd("set", MODE_KEY, "'manual'"),
      Cmd("set", "org.gnome.system.proxy.http:enabled", "true")>>

\* _gsettings_apply: read ignore-hosts, then the per-protocol keys, then mode.
ApplyCommands(S, cfg) ==
    LET existing == parse_gsettings_str_list(S[IGNORE_HOSTS_KEY])
        merged == Merged(existing \o cfg.bypass_hosts, <<>>)
    IN <<Cmd("get", IGNORE_HOSTS_KEY, ""),
         Cmd("set", "org.gnome.system.proxy.http:enabled", "true"),
         Cmd("set", "org.gnome.system.proxy.http:host", format_gsettings_str(cfg.http_host)),
         Cmd("set", "org.gnome.system.proxy.http:port", ToString(cfg.http_port)),
         Cmd("set", "org.gnome.system.proxy.https:host", format_gsettings_str(cfg.http_host)),
         Cmd("set", "org.gnome.system.proxy.https:port", ToString(cfg.http_port)),
         Cmd("set", "org.gnome.system.proxy.socks:host", format_gsettings_str(cfg.socks_host)),
         Cmd("set", "org.gnome.system.proxy.socks:port", ToString(cfg.socks_port)),
         Cmd("set", "org.gnome.system.proxy:use-same-proxy", "true"),
         Cmd("set", IGNORE_HOSTS_KEY, merged),
         Cmd("set", MODE_KEY, "'manual'")>>

\* The snapshot file: absent, or the JSON object save_json wrote.
NoSnapshotFile == [exists |-> FALSE, backend |-> None, snapshot |-> <<>>]
SnapshotFile(snapshot) == [exists |-> TRUE, backend |-> "gsettings", snapshot |-> snapshot]

\* SystemProxyManager(): the backend found, with the desktop and the state
\* directory it works on.
SystemProxyManager(available) ==
    [backend |-> IF available THEN "gsettings" ELSE None,
     settings |-> DesktopSettings,
     file |-> NoSnapshotFile]

\* A step on the snapshot file, in the form of the commands of a pass.
FileCall(cmd, ok) == [pass |-> "file", cmd |-> cmd, key |-> "", ok |-> ok]

\* SystemProxyManager.restore().
restore(m, fail, unlink) ==
    IF ~m.file.exists
    THEN [proxy |-> m, result |-> "no_snapshot", calls |-> <<>>]
    ELSE IF m.file.backend # "gsettings"
    THEN [proxy |-> m, result |-> "ProxyApplyError", calls |-> <<>>]
    ELSE LET b == IF m.backend = None THEN "gsettings" ELSE m.backend
             r == RunPass(m.settings, "restore", RestoreCommands(m.file.snapshot), fail)
         IN IF r.raised
            THEN [proxy |-> [m EXCEPT !.backend = b, !.settings = r.settings],
                  result |-> "ProxyApplyError", calls |-> r.calls]
            ELSE [proxy |-> [backend |-> b, settings |-> r.settings,
                             file |-> IF unlink = "ok" THEN NoSnapshotFile ELSE m.file],
                  result |-> IF unlink = "ok" THEN "ok" ELSE "ok_snapshot_kept",
                  calls |-> Append(r.calls, FileCall("unlink", unlink = "ok"))]

ApplyGuardMutant(m) == FALSE

\* The backend check that opens apply().
ApplyGuard(m) == m.backend # "gsettings"

\* apply() restores first when a snapshot file is found.
RestoreFirst(m) == m.file.exists

\* SystemProxyManager.apply(cfg).  env names where each pass fails and what
\* unlink does.
apply(m, cfg, env) ==
    IF ApplyGuard(m)
    THEN [proxy |-> m, result |-> "ProxyApplyError", calls |-> <<>>]
    ELSE
    LET first == IF RestoreFirst(m)
                 THEN restore(m, env.restore, env.unlink)
                 ELSE [proxy |-> m, result |-> "no_snapshot", calls |-> <<>>]
        m1 == first.proxy
        snap == RunPass(m1.settings, "snapshot", SnapshotCommands, env.snapshot)
    IN IF snap.raised
       THEN [proxy |-> m1, result |-> "ProxyApplyError", calls |-> first.calls \o snap.calls]
       ELSE
       LET snapshot == m1.settings
           m2 == [m1 EXCEPT !.file = SnapshotFile(snapshot)]
           saved == first.calls \o snap.calls \o <<FileCall("save_json", TRUE)>>
           ap == RunPass(m2.settings, "apply", ApplyCommands(m2.settings, cfg), env.apply)
       IN IF ~ap.raised
          THEN [proxy |-> [m2 EXCEPT !.settings = ap.settings], result |-> "ok",
                calls |-> saved \o ap.calls]
          ELSE LET rb == RunPass(ap.settings, "rollback", RestoreCommands(snapshot),
                                 env.rollback)
               IN [proxy |-> [m2 EXCEPT !.settings = rb.settings],
                   result |-> "ProxyApplyError",
                   calls |-> saved \o ap.calls \o rb.calls]

\* ------------------------------------------------------------ observation
\* The supervisor and the operating system as an operation found them.
Snapshot == [sup |-> sup, procs |-> procs, handles |-> handles]

\* The record of the operation that produced the current state.
Op(name, result, code, calls) ==
    [op |-> name, result |-> result, code |-> code, calls |-> calls, pre |-> Snapshot]

Alive == {p \in DOMAIN procs : procs[p].alive}
OpenHandles == {h \in DOMAIN handles : handles[h]}

\* ------------------------------------------------------------------- Init
\* No Validate & Save run yet, nothing built, no apply() awaiting its restore.
NoHistory ==
    [run |-> "none", tested |-> NoConfig, built |-> {},
     unrestored |-> [pending |-> FALSE, settings |-> DesktopSettings]]

InitUI ==
    [status |-> "STOPPED", validated_config_path |-> None, start_enabled |-> FALSE,
     start_text |-> "Start", link_enabled |-> TRUE, validate_enabled |-> TRUE,
     timer_active |-> FALSE, socks_port |-> DEFAULT_SOCKS_PORT,
     http_port |-> DEFAULT_HTTP_PORT]

Init ==
    /\ sup = NewManager(None)
    /\ procs = <<>>
    /\ handles = <<>>
    /\ ui = InitUI
    /\ files = EmptyFiles
    /\ hist = NoHistory
    /\ proxy = SystemProxyManager(TRUE)
    /\ last = [op |-> "init", result |-> "ok", code |-> NoCode, calls |-> <<>>,
               pre |-> [sup |-> NewManager(None), procs |-> <<>>, handles |-> <<>>]]

\* ------------------------------------------- actions of the supervisor API
CallStart ==
    \E find \in {"found", "missing"},
       launch \in {"ok", "FileNotFoundError", "PermissionError", "OSError"} :
        LET r == start(sup, procs, handles, find, launch)
        IN /\ Len(r.procs) <= MaxProcs
           /\ Len(r.handles) <= MaxHandles
           /\ sup' = r.sup
           /\ procs' = r.procs
           /\ handles' = r.handles
           /\ last' = Op("start", r.result, NoCode, r.calls)
           /\ UNCHANGED <<ui, files, hist, proxy>>

CallStop ==
    \E term \in BOOLEAN, kill \in BOOLEAN :
        LET r == stop(sup, procs, handles, term, kill)
        IN /\ sup' = r.sup
           /\ procs' = r.procs
           /\ handles' = r.handles
           /\ last' = Op("stop", r.result, NoCode, r.calls)
           /\ UNCHANGED <<ui, files, hist, proxy>>

CallIsRunning ==
    LET r == is_running(sup, procs)
    IN /\ procs' = r.procs
       /\ last' = Op("is_running", IF r.value THEN "True" ELSE "False", NoCode,
                     IF sup.proc = NoRef THEN <<>> ELSE <<"poll">>)
       /\ UNCHANGED <<sup, handles, ui, files, hist, proxy>>

CallReturncode ==
    LET r == returncode(sup, procs)
    IN /\ procs' = r.procs
       /\ last' = Op("returncode", "ok", r.value,
                     IF sup.proc = NoRef THEN <<>> ELSE <<"poll">>)
       /\ UNCHANGED <<sup, handles, ui, files, hist, proxy>>

\* The operating system: a live engine process ends.  One that was sent
\* SIGKILL ends with status -9; any other ends with a status of its own.
ProcessExit ==
    \E p \in Alive, c \in ExitCodes :
        /\ procs' = [procs EXCEPT ![p].alive = FALSE,
                                  ![p].exitcode = IF procs[p].sig = "KILL" THEN -9 ELSE c]
        /\ last' = Op("process_exit", "ok", NoCode, <<>>)
        /\ UNCHANGED <<sup, handles, ui, files, hist, proxy>>

Next ==
    \/ CallStart
    \/ CallStop
    \/ CallIsRunning
    \/ CallReturncode
    \/ ProcessExit

Spec == Init /\ [][Next]_vars

\* --------------------------------------------- actions of the main window
\* The results _pick_proxy_ports() returns or raises in the runs of the main
\* window, where find_free_port() hands out a fresh port at every call.
PortPicks ==
    { pick_proxy_ports(probe1, probe2, FreshPorts) :
        probe1 \in ProbeResults, probe2 \in ProbeResults }

\* The links parse_link() rejects, and of the others those build_xray_config()
\* rejects (it reads no port before it raises).
BadLinks == {raw \in RawLinks : parse_link(raw).err # ""}
UnbuildableLinks ==
    {raw \in RawLinks \ BadLinks :
        build_xray_config(parse_link(raw).link, DEFAULT_SOCKS_PORT, DEFAULT_HTTP_PORT).err # ""}
BuildableLinks == RawLinks \ (BadLinks \cup UnbuildableLinks)

\* The inputs of a Validate & Save run: <<link, port selection, binary lookup,
\* self-test result>>.  What a run does not read because it fails earlier is
\* fixed.
ValidateInputs ==
    LET okPick == pick_proxy_ports("ok", "ok", FreshPorts)
        picked == {p \in PortPicks : p.err = ""}
    IN (BadLinks \X {okPick} \X {"found"} \X {Run("exit", 0, "", "")})
       \cup (BuildableLinks \X (PortPicks \ picked) \X {"found"} \X {Run("exit", 0, "", "")})
       \cup (UnbuildableLinks \X picked \X {"found"} \X {Run("exit", 0, "", "")})
       \cup (BuildableLinks \X picked \X {"missing"} \X {Run("exit", 0, "", "")})
       \cup (BuildableLinks \X picked \X {"found"} \X TestResults)

\* A click on Validate & Save (the button is enabled).
ValidateClicked ==
    /\ ui.validate_enabled
    /\ \E i \in ValidateInputs :
        \E r \in {on_validate_clicked(ui, sup, files, i[1], i[2], i[3], i[4])} :
           /\ "again" \notin Range(i[2].calls)
           /\ ui' = r.ui
           /\ sup' = r.sup
           /\ files' = r.files
           /\ hist' = [hist EXCEPT !.run = r.result,
                                    !.tested = IF r.result = "ok" THEN r.files.config
                                               ELSE NoConfig]
           /\ last' = Op("validate", r.result, NoCode, r.calls)
           /\ UNCHANGED <<procs, handles, proxy>>

\* The inputs of a click on Start / Stop: <<term, kill, probe1, probe2, launch>>.
\* A click that stops reads term and kill only, a click that starts reads the
\* rest, and a failed first probe leaves the second unread; what a click does
\* not read is fixed.
StopInputs ==
    {<<term, kill, "ok", "ok", "ok">> : term \in BOOLEAN, kill \in BOOLEAN}
        \ {<<TRUE, FALSE, "ok", "ok", "ok">>}

StartInputs ==
    {<<TRUE, TRUE, probe1, probe2, launch>> :
        probe1 \in ProbeResults, probe2 \in ProbeResults,
        launch \in {"ok", "FileNotFoundError", "PermissionError", "OSError"}}
        \ {i \in {<<TRUE, TRUE, probe1, probe2, launch>> :
                    probe1 \in ProbeResults, probe2 \in ProbeResults,
                    launch \in {"ok", "FileNotFoundError", "PermissionError", "OSError"}} :
             \/ i[3] # "ok" /\ (i[4] # "ok" \/ i[5] # "ok")
             \/ i[4] # "ok" /\ i[5] # "ok"}

\* A click on Start / Stop (the button is enabled), in a run of the window
\* that opens at most max engine logs.
StartStopClick(max) ==
    /\ ui.start_enabled
    /\ \E i \in IF is_running(sup, procs).value THEN StopInputs ELSE StartInputs :
        \E r \in {on_start_stop_clicked(ui, sup, procs, handles, i[1], i[2], i[3],
                                        i[4], i[5])} :
           /\ Len(r.handles) <= max
           /\ ui' = r.ui
           /\ sup' = r.sup
           /\ procs' = r.procs
           /\ handles' = r.handles
           /\ last' = Op("start_stop", r.result, NoCode, r.calls)
           /\ UNCHANGED <<files, hist, proxy>>

StartStopClicked == StartStopClick(MaxClicks)

\* The status timer fires.
PollCoreStatus ==
    /\ ui.timer_active
    /\ LET r == poll_core_status(ui, sup, procs)
       IN /\ ui' = r.ui
          /\ procs' = r.procs
          /\ last' = Op("poll", r.result, NoCode, <<"poll">>)
          /\ UNCHANGED <<sup, handles, files, hist, proxy>>

NextUI ==
    \/ ValidateClicked
    \/ StartStopClicked
    \/ PollCoreStatus
    \/ ProcessExit

SpecUI == Init /\ [][NextUI]_vars

\* One session of the window: a single Validate & Save run, then clicks on
\* Start / Stop while the status timer polls and engine processes exit.
ValidateOnce ==
    /\ hist.run = "none"
    /\ ValidateClicked

StartStopClickedAgain == StartStopClick(MaxLaunches)

NextSession ==
    \/ ValidateOnce
    \/ StartStopClickedAgain
    \/ PollCoreStatus
    \/ ProcessExit

SpecSession == Init /\ [][NextSession]_vars

\* The session under a status timer that keeps firing while it is active
\* (QTimer, started by a successful start and stopped by the poll that finds
\* the engine gone or by _stop_core).
SpecSessionLive == SpecSession /\ WF_vars(PollCoreStatus)

\* ------------------------------------- the core functions, called directly
\* The key=value pairs a query is written with.
QueryPairs ==
    { <<"type", "ws">>, <<"type", "grpc">>, <<"type", "zzz">>, <<"type", " ">>,
      <<"Type", "grpc">>, <<"transport", "WS">>,
      <<"security", "TLS">>, <<"security", "bogus">>,
      <<"headerType", " HTTP ">>, <<"headerType", "bogus">>,
      <<"serviceName", "svc">> }

Queries == UNION {[1..n -> QueryPairs] : n \in 0..MaxQuery}

\* Strings given to parse_link(): the empty one, ones urlparse refuses, and
\* ones with another scheme or none.
OtherLinks ==
    {EmptyLink}
        \cup {MalformedNetloc(s) : s \in {"http", "vless"}}
        \cup {RawLink(s, u, "example.com", p, <<>>) :
                s \in {"", "http", "vmess", "trojan", "SS"}, u \in {"", "uuid-1"},
                p \in {NoPort, 443}}

\* Strings given to parse_link(): the vless links with a given query and
\* every combination of userinfo, host and port.
VlessLinks(query) ==
    {RawLink("vless", u, h, p, query) :
        u \in {"", "not-a-uuid", "uuid-1"}, h \in {"", "host"},
        p \in {NoPort, 0, 443, MaxPort, MaxPort + 1}}
        \cup {RawLink("VLESS", u, "host", 443, query) : u \in {"not-a-uuid", "uuid-1"}}

\* Ports find_free_port() may hand out: any port nothing is bound to.
AllocPorts == {DEFAULT_SOCKS_PORT, DEFAULT_HTTP_PORT, 32768, 32769}

\* Results of the bind in ensure_port_available(), EACCES included.
BindResults == ProbeResults \cup {"PermissionDeniedError"}

\* The results subprocess.run() may give for the self-test command.
RunResults ==
    {Run("exit", c, e, o) : c \in {0, 1, 23}, e \in {"", " ", "bad config"},
                            o \in {"", " ", "Xray 1.8"}}
        \cup {Run(x, 0, "", "") : x \in {"FileNotFoundError", "PermissionError",
                                         "TimeoutExpired"}}

\* The arguments of a call of parse_link().
LinkInput(raw) == [op |-> "input", fn |-> "parse_link", raw |-> raw]

\* The initial state draws the arguments of one call of a core function.
InitCore ==
    /\ sup = NewManager(None)
    /\ procs = <<>>
    /\ handles = <<>>
    /\ ui = InitUI
    /\ files = EmptyFiles
    /\ hist = NoHistory
    /\ proxy = SystemProxyManager(TRUE)
    /\ \/ \E raw \in OtherLinks : last = LinkInput(raw)
       \/ \E query \in Queries : \E raw \in VlessLinks(query) : last = LinkInput(raw)
       \/ \E probe1 \in BindResults, probe2 \in BindResults,
             alloc \in [1..MaxAlloc -> AllocPorts] :
               last = [op |-> "input", fn |-> "pick_proxy_ports", probe1 |-> probe1,
                       probe2 |-> probe2, alloc |-> alloc]
       \/ \E run \in RunResults :
               last = [op |-> "input", fn |-> "validate_xray_config", run |-> run]

ParseLink ==
    /\ last.op = "input" /\ last.fn = "parse_link"
    /\ last' = [op |-> "parse_link", raw |-> last.raw, out |-> parse_link(last.raw)]
    /\ UNCHANGED <<sup, procs, handles, ui, files, hist, proxy>>

\* build_xray_config() on a record parse_link() returned.
BuildConfig ==
    /\ last.op = "parse_link" /\ last.out.err = ""
    /\ \E socks \in {DEFAULT_SOCKS_PORT, 32768}, http \in {DEFAULT_HTTP_PORT, 32769} :
          last' = [op |-> "build_xray_config", raw |-> last.raw, link |-> last.out.link,
                   socks |-> socks, http |-> http,
                   out |-> build_xray_config(last.out.link, socks, http)]
    /\ UNCHANGED <<sup, procs, handles, ui, files, hist, proxy>>

PickProxyPorts ==
    /\ last.op = "input" /\ last.fn = "pick_proxy_ports"
    /\ last' = [op |-> "pick_proxy_ports", probe1 |-> last.probe1,
                probe2 |-> last.probe2, alloc |-> last.alloc,
                out |-> pick_proxy_ports(last.probe1, last.probe2, last.alloc)]
    /\ UNCHANGED <<sup, procs, handles, ui, files, hist, proxy>>

ValidateXrayConfig ==
    /\ last.op = "input" /\ last.fn = "validate_xray_config"
    /\ last' = [op |-> "validate_xray_config", run |-> last.run,
                out |-> validate_xray_config(last.run)]
    /\ UNCHANGED <<sup, procs, handles, ui, files, hist, proxy>>

NextCore ==
    \/ ParseLink
    \/ BuildConfig
    \/ PickProxyPorts
    \/ ValidateXrayConfig

SpecCore == InitCore /\ [][NextCore]_vars

\* ------------------------- build_xray_config() between runs of the window
\* The records parse_link() returns for the links of the link input.
ParsedLinks == {parse_link(raw).link : raw \in RawLinks \ BadLinks}

\* The arguments build_xray_config() is called with: every record with the
\* default ports, and with the ports find_free_port() hands out first.
BuildArgs ==
    (ParsedLinks \X {DEFAULT_SOCKS_PORT} \X {DEFAULT_HTTP_PORT})
        \cup ({l \in ParsedLinks : l.security = "tls"} \X {FreshPorts[1]} \X {FreshPorts[2]})

\* A call of build_xray_config() at any moment, its arguments and result
\* remembered in hist.built.
CallBuildConfig ==
    \E args \in BuildArgs :
        LET out == build_xray_config(args[1], args[2], args[3])
            call == [link |-> args[1], socks_port |-> args[2], http_port |-> args[3],
                     out |-> out]
        IN /\ Cardinality(hist.built \cup {call}) <= MaxBuilds
           /\ hist' = [hist EXCEPT !.built = @ \cup {call}]
           /\ last' = Op("build_xray_config",
                         IF out.err = "" THEN "ok" ELSE "ConfigBuildError", NoCode, <<>>)
           /\ UNCHANGED <<sup, procs, handles, ui, files, proxy>>

\* The first run of the window, coming between two remembered calls.
RunBetweenCalls ==
    /\ hist.built # {}
    /\ Cardinality(hist.built) < MaxBuilds
    /\ hist.run = "none"
    /\ ValidateClicked

NextBuild ==
    \/ RunBetweenCalls
    \/ CallBuildConfig

SpecBuild == Init /\ [][NextBuild]_vars

\* ---------------------------------------------------------------- helpers
PreSup == last.pre.sup
PreProc == last.pre.sup.proc
\* The manager held a Popen object whose OS process was alive / had exited.
PreOwnedAlive == PreProc # NoRef /\ last.pre.procs[PreProc].alive
PreOwnedExited == PreProc # NoRef /\ ~last.pre.procs[PreProc].alive
\* is_running() as an observer would get it in the current state.
Running == is_running(sup, procs).value

\* ------------------------------------------------ claims on the supervisor

\* C1: at most one engine process launched by the manager is alive at any
\* time, whatever start / stop / query calls, launch failures and process
\* exits came before.
C1_AtMostOneAlive == Cardinality(Alive) <= 1

\* C2: no log handle leaks: every handle start() opened and nobody closed is
\* the one the manager references, and none is open while the manager holds
\* no process.
C2_NoLogHandleLeak ==
    /\ \A h \in OpenHandles : h = sup.stdout_handle
    /\ sup.proc = NoRef => OpenHandles = {}

\* C5: stop() on a manager that holds a process calls terminate() first and
\* then wait(); kill() is called if and only if that wait timed out, it is
\* followed by a second wait(), a process that ignored the terminate signal
\* has been sent the kill signal, and after stop() the manager is not running.
C5_StopEscalation ==
    (last.op = "stop" /\ PreProc # NoRef) =>
        LET c == last.calls
            timedOut == c[2] = "wait:TimeoutExpired"
        IN /\ Len(c) >= 2
           /\ c[1] = "terminate"
           /\ c[2] \in {"wait:ok", "wait:TimeoutExpired"}
           /\ ("kill" \in Range(c)) <=> timedOut
           /\ timedOut => /\ Len(c) = 4
                          /\ c[3] = "kill"
                          /\ c[4] \in {"wait:ok", "wait:TimeoutExpired"}
                          /\ procs[PreProc].sig = "KILL"
                          /\ c[4] = "wait:ok" => ~procs[PreProc].alive
           /\ ~timedOut => /\ Len(c) = 2
                           /\ procs[PreProc].sig # "KILL"
                           /\ ~procs[PreProc].alive
           /\ PreOwnedAlive => procs[PreProc].sig \in {"TERM", "KILL"}
           /\ (last.result = "TimeoutExpired") <=> (timedOut /\ c[4] = "wait:TimeoutExpired")
           /\ ~Running

C5_Witness ==
    /\ last.op = "stop"
    /\ PreOwnedAlive
    /\ last.calls = <<"terminate", "wait:TimeoutExpired", "kill", "wait:ok">>
    /\ last.result = "ok"

\* C6: every stop() on a manager that holds a process handle ends with the
\* log handle closed and cleared and the process handle cleared, whether the
\* process went after terminate, was force-killed, or outlived the wait after
\* the kill so that stop() raised.
C6_StopReleases ==
    (last.op = "stop" /\ PreProc # NoRef) =>
        /\ sup.proc = NoRef
        /\ sup.stdout_handle = NoRef
        /\ PreSup.stdout_handle # NoRef
        /\ ~handles[PreSup.stdout_handle]

C6_Witness ==
    /\ last.op = "stop"
    /\ PreOwnedAlive
    /\ last.result = "TimeoutExpired"
    /\ last.pre.handles[PreSup.stdout_handle]

\* C7: start() while the owned process is alive does nothing: no binary
\* lookup, no open of the log, no launch; the manager, the processes and the
\* handles are as they were, and the owned process still runs.
C7_StartWhileRunningNoop ==
    (last.op = "start" /\ PreOwnedAlive) =>
        /\ last.result = "noop"
        /\ last.calls = <<"poll">>
        /\ sup = PreSup
        /\ procs = last.pre.procs
        /\ handles = last.pre.handles
        /\ Running

C7_Witness ==
    /\ last.op = "start"
    /\ last.result = "noop"
    /\ Len(procs) = 1
    /\ Alive = {1}

\* C8: a start() that fails to launch raises BinaryMissing when the
\* executable is not found and PermissionDenied when it is not executable,
\* launches nothing and leaves the manager not running with the process
\* handle it had, so that a later start() goes on to launch.
C8_StartFailureLeavesAbsent ==
    (last.op = "start" /\ last.result \notin {"ok", "noop"}) =>
        /\ "which:missing" \in Range(last.calls) => last.result = "BinaryMissingError"
        /\ "Popen:FileNotFoundError" \in Range(last.calls)
              => last.result = "BinaryMissingError"
        /\ "Popen:PermissionError" \in Range(last.calls)
              => last.result = "PermissionDeniedError"
        /\ last.result \in {"BinaryMissingError", "PermissionDeniedError"}
              <=> Range(last.calls) \cap {"which:missing", "Popen:FileNotFoundError",
                                          "Popen:PermissionError"} # {}
        /\ Len(procs) = Len(last.pre.procs)
        /\ sup.proc = PreProc
        /\ ~Running
        /\ ~StartGuard(sup, procs)

C8_Witness ==
    /\ last.op = "start"
    /\ last.result = "PermissionDeniedError"
    /\ PreOwnedExited

\* C9: once the owned process has exited by itself, is_running() polls
\* without waiting and answers False, the exit status is cached in the
\* process handle, and returncode() answers that exit status.
C9_ExitReconciled ==
    /\ (last.op = "is_running" /\ PreOwnedExited) =>
          /\ last.result = "False"
          /\ last.calls = <<"poll">>
          /\ procs[PreProc].returncode = <<procs[PreProc].exitcode>>
    /\ (last.op = "returncode" /\ PreOwnedExited) =>
          /\ last.code = <<procs[PreProc].exitcode>>
          /\ last.calls = <<"poll">>
    /\ \A p \in DOMAIN procs :
          procs[p].returncode # NoCode =>
              ~procs[p].alive /\ procs[p].returncode = <<procs[p].exitcode>>
    /\ (sup.proc # NoRef /\ ~procs[sup.proc].alive) => ~Running

C9_Witness ==
    /\ last.op = "returncode"
    /\ PreOwnedExited
    /\ last.pre.procs[PreProc].returncode # NoCode
    /\ last.code = <<1>>

\* C10: stop() on a manager that holds no process raises nothing, makes no
\* call on any process and changes nothing; is_running() answers True
\* exactly when the manager holds a process that is alive, False otherwise.
C10_StopAbsentNoop ==
    /\ (last.op = "stop" /\ PreProc = NoRef) =>
          /\ last.result = "noop"
          /\ last.calls = <<>>
          /\ sup = PreSup
          /\ procs = last.pre.procs
          /\ handles = last.pre.handles
    /\ last.op = "is_running" =>
          /\ last.result \in {"True", "False"}
          /\ (last.result = "True") <=> (sup.proc # NoRef /\ procs[sup.proc].alive)

C10_Witness ==
    /\ last.op = "stop"
    /\ PreProc = NoRef
    /\ PreSup.stdout_handle # NoRef
    /\ Len(procs) >= 1

\* ----------------------------------------------- claims on the main window
\* The calls of a Validate & Save run that bind a port, write a file, run the
\* validator or look the engine up.
PortCalls == {"ensure_port_available", "find_free_port"}
LaterCalls ==
    {"save_json:config", "save_json:profile", "which:found", "which:missing"}
        \cup {"validate_xray_config:" \o RunName(x) : x \in TestResults}
StartInvoked == last.op = "start_stop" /\ "start" \in Range(last.calls)

\* C3: start() is invoked only while the most recent Validate & Save run is
\* one that ended with a successful self-test, on the very document that
\* passed it; after a run that failed in any way the validated path is
\* cleared and the Start button disabled.
C3_StartOnlyValidated ==
    /\ hist.run # "ok" => (ui.validated_config_path = None /\ ~ui.start_enabled)
    /\ (last.op = "validate" /\ last.result # "ok") =>
          /\ hist.run = last.result
          /\ last.result \in {"parse_error", "port_error", "build_error",
                              "binary_missing", "validator_rejected", "validator_timeout"}
    /\ StartInvoked =>
          /\ hist.run = "ok"
          /\ ui.validated_config_path # None
          /\ files.config = hist.tested
          /\ files.config # NoConfig

C3_Witness ==
    /\ StartInvoked
    /\ last.result = "started"
    /\ hist.tested.inbounds[1].port # DEFAULT_SOCKS_PORT

\* C4 as claimed: a run in which parse_link or build_xray_config raises has
\* bound no port, written no file, not run the validator and spawned nothing.
C4_NothingBeforeParseOrBuildError ==
    (last.op = "validate" /\ last.result \in {"parse_error", "build_error"}) =>
        /\ Range(last.calls) \cap (PortCalls \cup LaterCalls) = {}
        /\ procs = last.pre.procs

\* C4 as amended: a run in which parse_link raises has done nothing but
\* parse; a run in which build_xray_config raises has probed the ports (and
\* may have allocated ephemeral ones) but has written no file, not looked the
\* engine up, not run the validator and spawned nothing.
C4_ParseThenPortsThenBuild ==
    /\ (last.op = "validate" /\ last.result = "parse_error") =>
          /\ last.calls = <<"parse_link">>
          /\ procs = last.pre.procs
    /\ (last.op = "validate" /\ last.result = "build_error") =>
          /\ "ensure_port_available" \in Range(last.calls)
          /\ Range(last.calls) \cap LaterCalls = {}
          /\ procs = last.pre.procs
          /\ sup = last.pre.sup

C4_Witness ==
    /\ last.op = "validate"
    /\ last.result = "build_error"
    /\ "find_free_port" \in Range(last.calls)
    /\ files.config # NoConfig

\* C13: the profile {link} is written only by a Validate & Save run whose
\* self-test succeeded; a run that fails, in particular at the binary lookup
\* or at the self-test, does not call save_json on the profile and leaves the
\* stored profile as it was.
C13_ProfileOnlyAfterValidation ==
    [][(last'.op = "validate" /\ last'.result # "ok") =>
          /\ "save_json:profile" \notin Range(last'.calls)
          /\ files'.profile = files.profile]_vars

\* ------------------------------------------- claims on the port selection
\* A probe that raised an AppError (PortInUse or PermissionDenied).
Unavailable(probe) == probe \in {"PortInUseError", "PermissionDeniedError"}
\* _pick_proxy_ports() was called and returned a pair.
PickReturned ==
    /\ last.op = "pick_proxy_ports"
    /\ last.out.err = ""
    /\ "again" \notin Range(last.out.calls)
\* The calls of find_free_port() in the port selection.
AllocatorCalls ==
    Cardinality({i \in DOMAIN last.out.calls : last.out.calls[i] = "find_free_port"})

\* C11 as claimed: a port selection that returns gives two different ports;
\* both defaults when both probes succeed; a default whose probe fails with
\* PortInUse or PermissionDenied is replaced by a port of find_free_port(),
\* and the other default, if its probe succeeds, is kept.
C11_DistinctPortsOtherDefaultKept ==
    PickReturned =>
        /\ last.out.socks # last.out.http
        /\ (last.probe1 = "ok" /\ last.probe2 = "ok") =>
              /\ last.out.socks = DEFAULT_SOCKS_PORT
              /\ last.out.http = DEFAULT_HTTP_PORT
        /\ Unavailable(last.probe1) => last.out.socks = last.alloc[1]
        /\ Unavailable(last.probe2) => last.out.http \in Range(last.alloc)
        /\ last.probe1 = "ok" => last.out.socks = DEFAULT_SOCKS_PORT
        /\ last.probe2 = "ok" => last.out.http = DEFAULT_HTTP_PORT

\* C11 as amended: as above, but a free HTTP default is kept only when the
\* SOCKS port is not that very port; when find_free_port() gave the HTTP
\* default as the SOCKS port, the HTTP port is one of find_free_port() too.
C11_DistinctPortsDefaultKeptUnlessTaken ==
    PickReturned =>
        /\ last.out.socks # last.out.http
        /\ (last.probe1 = "ok" /\ last.probe2 = "ok") =>
              /\ last.out.socks = DEFAULT_SOCKS_PORT
              /\ last.out.http = DEFAULT_HTTP_PORT
        /\ Unavailable(last.probe1) => last.out.socks = last.alloc[1]
        /\ Unavailable(last.probe2) => last.out.http \in Range(last.alloc)
        /\ last.probe1 = "ok" => last.out.socks = DEFAULT_SOCKS_PORT
        /\ last.probe2 = "ok" =>
              IF last.out.socks # DEFAULT_HTTP_PORT
              THEN last.out.http = DEFAULT_HTTP_PORT
              ELSE last.out.http \in Range(last.alloc) \ {DEFAULT_HTTP_PORT}

C11_Witness ==
    /\ PickReturned
    /\ last.probe1 = "PermissionDeniedError"
    /\ last.probe2 = "ok"
    /\ last.out.socks = DEFAULT_HTTP_PORT
    /\ last.out.http = 32768

\* C12: one port selection calls find_free_port() at most once for each
\* port whose probe failed, and ends whatever ports find_free_port() hands
\* back (it never has to go round the re-pick loop again).
C12_AllocatorOncePerPort ==
    (last.op = "pick_proxy_ports" /\ last.out.err = "") =>
        /\ "again" \notin Range(last.out.calls)
        /\ AllocatorCalls <= Cardinality({p \in {1, 2} :
                                Unavailable(IF p = 1 THEN last.probe1 ELSE last.probe2)})

\* ---------------------------------------------- claims on the link parser
\* parse_link() was called and returned a record.
Parsed == last.op = "parse_link" /\ last.out.err = ""
\* The input has the vless scheme, in any case of the letters.
HasVlessScheme(raw) == raw.scheme \in {"vless", "VLESS"}
\* Credentials that are not UUIDs.
NonUuidCredentials == {"not-a-uuid"}

\* C14: every record parse_link() returns has a non-empty credential and
\* host, a port in 1..65535, a transport among tcp / ws / grpc and a security
\* among none / tls.
C14_LinkRecordInvariant ==
    Parsed =>
        /\ last.out.link.user_id # ""
        /\ last.out.link.host # ""
        /\ last.out.link.port \in 1..MaxPort
        /\ last.out.link.transport \in {"tcp", "ws", "grpc"}
        /\ last.out.link.security \in {"none", "tls"}

\* C15: for every input that does not have the vless scheme, parse_link()
\* returns no record and raises UnsupportedSchemeError: "Unsupported scheme"
\* when the scheme is none of vmess / vless / trojan / ss, "Scheme not
\* implemented" when it is vmess, trojan or ss.
C15_OtherSchemesRejected ==
    (last.op = "parse_link" /\ ~HasVlessScheme(last.raw)) =>
        /\ last.out.link = NoLink
        /\ ErrorClass(last.out.err) = "UnsupportedSchemeError"
        /\ last.out.err = IF last.raw.scheme \in {"vmess", "trojan", "ss", "SS"}
                          THEN "Scheme not implemented" ELSE "Unsupported scheme"

EarliestValue(query, key) ==
    LET hits == {i \in DOMAIN query : Lower(query[i][1]) = key}
        first == CHOOSE i \in hits : \A j \in hits : i <= j
    IN IF hits = {} \/ Strip(query[first][2]) = "" THEN None
       ELSE Strip(query[first][2])

\* C17: the value parse_link() uses for a key is the value of the earliest
\* occurrence of the key in the query, letter case ignored, and a blank
\* value counts as absent (Type=ws&type=grpc gives the transport ws).
C17_FirstOccurrenceWins ==
    Parsed =>
        /\ last.out.link.transport =
              Lower(OrElse(EarliestValue(last.raw.query, "type"),
                           OrElse(EarliestValue(last.raw.query, "transport"), "tcp")))
        /\ last.out.link.security =
              Lower(OrElse(EarliestValue(last.raw.query, "security"), "none"))
        /\ last.out.link.header_type = EarliestValue(last.raw.query, "headertype")
        /\ last.out.link.grpc_service_name = EarliestValue(last.raw.query, "servicename")

\* ------------------------------------------- claims on the config builder
\* The header type as the builder reads it: trimmed and lower-cased, none
\* when the link has none.
HeaderTypeOf(link) == Lower(Strip(OrElse(link.header_type, "none")))

\* C18: on a record parse_link() returned, build_xray_config() raises
\* ConfigBuildError exactly when the transport is grpc and the service name
\* is absent or empty, or the transport is tcp and the header type is none of
\* none / empty / http; otherwise it returns a document, and for ws and grpc
\* the header type changes nothing.
C18_BuildFailsExactlyWhen ==
    last.op = "build_xray_config" =>
        LET link == last.link
            mustFail ==
                \/ link.transport = "grpc" /\ link.grpc_service_name \in {None, ""}
                \/ link.transport = "tcp" /\ HeaderTypeOf(link) \notin {"none", "", "http"}
        IN /\ (last.out.err # "") <=> mustFail
           /\ (last.out.err = "") <=> (last.out.config # NoConfig)
           /\ link.transport \in {"ws", "grpc"} =>
                 last.out = build_xray_config([link EXCEPT !.header_type = None],
                                              last.socks, last.http)

C18_Witness ==
    /\ last.op = "build_xray_config"
    /\ last.link.transport = "grpc"
    /\ last.link.grpc_service_name = None
    /\ last.link.header_type = "bogus"
    /\ last.out.err = "Missing gRPC serviceName"

\* ------------------------------------------------ claims on the validator
\* C20: validate_xray_config() returns when the self-test exits with 0;
\* raises ConfigBuildError when it exits with another status, the detail
\* being the first non-blank of stderr, stdout and "exit code N"; raises
\* BinaryMissingError when the executable is not found and
\* PermissionDeniedError when it cannot be executed.
C20_SelfTestClassified ==
    last.op = "validate_xray_config" =>
        LET run == last.run
            out == last.out
        IN /\ (out.err = "") <=> (run.outcome = "exit" /\ run.returncode = 0)
           /\ (out.err = "ConfigBuildError") <=>
                 (run.outcome = "exit" /\ run.returncode # 0)
           /\ (out.err = "BinaryMissingError") <=> (run.outcome = "FileNotFoundError")
           /\ (out.err = "PermissionDeniedError") <=> (run.outcome = "PermissionError")
           /\ out.err = "ConfigBuildError" =>
                 out.detail =
                    IF Strip(run.stderr) # "" THEN Strip(run.stderr)
                    ELSE IF Strip(run.stdout) # "" THEN Strip(run.stdout)
                    ELSE "exit code " \o ToString(run.returncode)

C20_Witness ==
    /\ last.op = "validate_xray_config"
    /\ last.run = Run("exit", 23, "bad config", "Xray 1.8")
    /\ last.out = [err |-> "ConfigBuildError", detail |-> "bad config"]

ProxyOp(name, result, calls) ==
    [op |-> name, result |-> result, calls |-> calls, pre |-> proxy]

\* The commands of one pass among calls.
PassOf(calls, pass) == SelectSeq(calls, LAMBDA c : c.pass = pass)

\* A call wrote every key of the snapshot file back.
RestoredAll(calls) == \E i \in DOMAIN calls : calls[i].cmd = "unlink"
\* A call wrote a snapshot file.
SavedSnapshot(calls) == \E i \in DOMAIN calls : calls[i].cmd = "save_json"

\* The settings in effect before the earliest apply() that no restore() has
\* undone yet, followed through one call.
Unrestored(h, m, calls) ==
    IF SavedSnapshot(calls)
    THEN IF h.pending THEN h ELSE [pending |-> TRUE, settings |-> m.settings]
    ELSE IF RestoredAll(calls)
    THEN [pending |-> FALSE, settings |-> DesktopSettings]
    ELSE h

\* What the environment does to the passes of one apply() on m, told apart
\* only where apply() gets to run the pass.
ApplyEnvs(m) ==
    {e \in [restore : FailPoints(Len(GSETTINGS_KEYS)), unlink : {"ok", "OSError"},
            snapshot : FailPoints(Len(GSETTINGS_KEYS)),
            apply : FailPoints(Len(GSETTINGS_KEYS) + 1),
            rollback : FailPoints(Len(GSETTINGS_KEYS))] :
        /\ (e.restore # 0 \/ e.unlink # "ok") => (m.file.exists /\ m.backend = "gsettings")
        /\ e.unlink # "ok" => e.restore = 0
        /\ e.snapshot # 0 => (e.apply = 0 /\ m.backend = "gsettings")
        /\ e.apply # 0 => m.backend = "gsettings"
        /\ e.rollback # 0 => e.apply # 0}

InitProxy ==
    /\ sup = NewManager(None)
    /\ procs = <<>>
    /\ handles = <<>>
    /\ ui = InitUI
    /\ files = EmptyFiles
    /\ hist = NoHistory
    /\ \E available \in BOOLEAN : proxy = SystemProxyManager(available)
    /\ last = [op |-> "init", result |-> "ok", calls |-> <<>>, pre |-> proxy]

ProxyApply ==
    \E env \in ApplyEnvs(proxy) :
        \E r \in {apply(proxy, ProxyConfig, env)} :
           /\ proxy' = r.proxy
           /\ hist' = [hist EXCEPT !.unrestored = Unrestored(@, proxy, r.calls)]
           /\ last' = ProxyOp("apply", r.result, r.calls)
           /\ UNCHANGED <<sup, procs, handles, ui, files>>

ProxyRestore ==
    \E fail \in FailPoints(Len(GSETTINGS_KEYS)),
       unlink \in IF proxy.file.exists THEN {"ok", "OSError"} ELSE {"ok"} :
        \E r \in {restore(proxy, fail, unlink)} :
           /\ proxy' = r.proxy
           /\ hist' = [hist EXCEPT !.unrestored = Unrestored(@, proxy, r.calls)]
           /\ last' = ProxyOp("restore", r.result, r.calls)
           /\ UNCHANGED <<sup, procs, handles, ui, files>>

NextProxy ==
    \/ ProxyApply
    \/ ProxyRestore

SpecProxy == InitProxy /\ [][NextProxy]_vars

\* ------------------------------------------------- system proxy: claims
ProxyCall(name) == last.op = name /\ name \in {"apply", "restore"}
\* The writes of one pass of the last call, in the order they ran.
WritesOf(pass) == SelectSeq(PassOf(last.calls, pass), LAMBDA c : c.cmd = "set")

\* C22: apply(cfg) on a manager without a supported backend raises
\* ProxyApplyError before doing anything: it runs no gsettings command, so
\* no setting is read or written, and it writes no snapshot file.
C22_UnsupportedBackendRaisesFirst ==
    (ProxyCall("apply") /\ last.pre.backend # "gsettings")
        => /\ last.result = "ProxyApplyError"
           /\ last.calls = <<>>
           /\ proxy = last.pre

\* C22 witness: apply() was called on a manager whose backend is None, next
\* to a desktop whose settings it left alone.
C22_Witness ==
    /\ ProxyCall("apply")
    /\ last.pre.backend = None
    /\ last.result = "ProxyApplyError"
    /\ ~proxy.file.exists

C24_SnapshotHoldsPreApplySettings ==
    (proxy.file.exists /\ hist.unrestored.pending)
        => proxy.file.snapshot = hist.unrestored.settings

\* C26: in every pass that writes settings (apply, restore, rollback), mode
\* is the last write, made only after every other key was written
\* successfully; a pass in which an earlier write failed does not write mode.
C26_ModeWrittenLast ==
    ProxyCall(last.op) =>
        \A pass \in {"apply", "restore", "rollback"} :
            LET w == WritesOf(pass)
            IN \A i \in DOMAIN w :
                w[i].key = MODE_KEY
                    => /\ i = Len(w)
                       /\ \A j \in 1..(i - 1) : w[j].ok
                       /\ {w[j].key : j \in 1..(i - 1)}
                            = Range(GSETTINGS_KEYS) \ {MODE_KEY}

\* C26 witness: an apply() whose first write failed, so that its apply pass
\* wrote no mode, and whose rollback then wrote every key and mode last.
C26_Witness ==
    /\ ProxyCall("apply")
    /\ Len(WritesOf("apply")) = 1
    /\ ~WritesOf("apply")[1].ok
    /\ Len(WritesOf("rollback")) = Len(GSETTINGS_KEYS)
    /\ WritesOf("rollback")[Len(GSETTINGS_KEYS)].key = MODE_KEY
    /\ WritesOf("rollback")[Len(GSETTINGS_KEYS)].ok

\* ------------------------------------------ the window's session: claims
\* The view _poll_core_status and _stop_core leave behind.
StoppedView ==
    /\ ui.status = "STOPPED"
    /\ ~ui.timer_active
    /\ ui.link_enabled
    /\ ui.validate_enabled

\* C23: while the status is RUNNING and the button reads Stop, a click on
\* Start / Stop launches no engine process and leaves the supervisor with no
\* running process, whether or not the engine had already exited.
C23_StopClickNeverLaunches ==
    [][(ui.status = "RUNNING" /\ ui.start_text = "Stop" /\ last'.op = "start_stop")
            => /\ Len(procs') = Len(procs)
               /\ ~is_running(sup', procs').value]_vars

\* C25: once the engine has exited while the status is RUNNING, the status
\* timer's poll leads to the stopped view (status STOPPED, timer stopped, link
\* input and Validate enabled) unless the user clicks Start / Stop first; and
\* a poll that finds the engine alive changes neither the view nor the
\* supervisor.
C25_PollReconcilesExit ==
    /\ (ui.status = "RUNNING" /\ ~Running) ~> (StoppedView \/ last.op = "start_stop")
    /\ [][(last'.op = "poll" /\ last'.result = "running")
            => UNCHANGED <<ui, sup, handles, files>>]_vars

\* C25 witness: the timer's poll found the engine exited and left the
\* stopped view.
C25_Witness ==
    /\ last.op = "poll"
    /\ last.result = "stopped"
    /\ PreOwnedExited
    /\ StoppedView
    /\ ui.start_text = "Start"

\* ------------------------------------------- the order of parse_link's rules
\* The rules of parse_link in the order the claim lists them, and the ones an
\* input violates: 1 empty input, 2 scheme, 3 missing credential / host /
\* port, 4 credential UUID syntax, 5 transport, 6 security.
ViolatedRules(raw) ==
    LET query == LoweredQuery(raw.query)
        security == Lower(OrElse(First(query, "security"), "none"))
        transport == Lower(OrElse(First(query, "type"),
                                  OrElse(First(query, "transport"), "tcp")))
    IN {r \in 1..6 :
          \/ r = 1 /\ raw = EmptyLink
          \/ r = 2 /\ Lower(raw.scheme) # "vless"
          \/ r = 3 /\ (raw.username = "" \/ raw.hostname = "" \/ raw.port = NoPort)
          \/ r = 4 /\ raw.username \notin ValidUUIDs
          \/ r = 5 /\ transport \notin {"tcp", "ws", "grpc"}
          \/ r = 6 /\ security \notin {"none", "tls"}}

\* The rule an error message belongs to; 0 for an error of no rule.
RuleOf(err) ==
    CASE err = "Empty link" -> 1
      [] err \in {"Unsupported scheme", "Scheme not implemented"} -> 2
      [] err = "Malformed vless link" -> 3
      [] err = "Invalid VLESS user id" -> 4
      [] err = "Unsupported transport" -> 5
      [] err = "Unsupported security" -> 6
      [] OTHER -> 0

\* C27: an input that violates one or more rules makes parse_link() fail
\* with the error of the earliest rule it violates.
C27_EarliestViolatedRuleWins ==
    (last.op = "parse_link" /\ ViolatedRules(last.raw) # {})
        => /\ last.out.err # ""
           /\ RuleOf(last.out.err) \in ViolatedRules(last.raw)
           /\ \A r \in ViolatedRules(last.raw) : RuleOf(last.out.err) <= r

====
